---- MODULE Spec2Model ----
(***************************************************************************)
(* Model of command-parser: Parser::parse (src/src/parser.rs), the         *)
(* character-by-character state machine that turns one line of text into   *)
(* a Command (src/src/command.rs) or a ParseError (src/src/error.rs).      *)
(*                                                                         *)
(* A Rust String is a sequence of characters; a character is a string of   *)
(* length one.  A HashSet<String> is a set, a HashMap<String, String> a    *)
(* set of <<key, value>> pairs with at most one pair per key.              *)
(***************************************************************************)
EXTENDS Integers, Sequences, FiniteSets, TLC

\* ------------------------------------------------------------------ bounds
MaxLen == 4
MaxTail == 3
MaxQuoted == 5
MaxTokens == 3
NumCallers == 2

\* -------------------------------------------------------------- characters
SP == " "
DQ == "\""
BS == "\\"
COL == ":"

Alphabet == {SP, DQ, BS, COL, "!", "-", "a"}

\* After the first character of a line '!' is a character like 'a'.
TailAlphabet == {SP, DQ, BS, COL, "-", "a"}

RECURSIVE SeqsOfLen(_, _)
SeqsOfLen(S, n) ==
    IF n = 0 THEN {<<>>}
    ELSE {Append(s, x) : s \in SeqsOfLen(S, n - 1), x \in S}

BoundedSeq(S, n) == UNION {SeqsOfLen(S, k) : k \in 0..n}

\* ------------------------------------------------------------- the inputs
\* Every line of at most MaxLen characters.
ShortInputs == BoundedSeq(Alphabet, MaxLen)

\* Openings that bring the parser (prefix '!', option prefix '-') into each
\* of its token contexts; every continuation of at most MaxTail characters
\* is parsed after each of them.
HeadDefault   == <<"!", "a", SP>>
HeadLongArg   == <<"!", "a", SP, DQ>>
HeadOption    == <<"!", "a", SP, "-">>
HeadParam     == <<"!", "a", SP, "-", "a", COL>>
HeadParamLong == <<"!", "a", SP, "-", "a", COL, DQ>>
HeadFlagDone  == <<"!", "a", SP, "-", "a", SP, "-">>
HeadParamDone == <<"!", "a", SP, "-", "a", COL, "a", SP, "-", "a", COL>>
HeadArgDone   == <<"!", "a", SP, "a", SP>>

Heads == {HeadDefault, HeadLongArg, HeadOption, HeadParam, HeadParamLong,
          HeadFlagDone, HeadParamDone, HeadArgDone}

HeadInputs ==
    {h \o t : h \in Heads, t \in BoundedSeq(TailAlphabet, MaxTail)}

\* Every text of at most MaxQuoted characters of a quoted token's alphabet
\* after the opening quote of an argument and of a parameter value.
QuoteAlphabet == {SP, DQ, BS, "a"}

QuotedInputs ==
    {h \o t : h \in {HeadLongArg, HeadParamLong},
              t \in BoundedSeq(QuoteAlphabet, MaxQuoted)}

\* Lines made of whole tokens: "!a " followed by at most MaxTokens words,
\* each closed by a space, with the arguments each word commits.
Words ==
    {[text |-> <<"a", SP>>, arguments |-> << <<"a">> >>],
     [text |-> <<COL, SP>>, arguments |-> << <<COL>> >>],
     [text |-> <<DQ, "a", SP, "a", DQ, SP>>,
      arguments |-> << <<"a", SP, "a">> >>],
     [text |-> <<DQ, DQ, SP>>, arguments |-> << <<>> >>],
     [text |-> <<"-", "a", SP>>, arguments |-> <<>>],
     [text |-> <<"-", "a", COL, "a", SP>>, arguments |-> <<>>]}

RECURSIVE LinesOfWords(_)
LinesOfWords(n) ==
    IF n = 0 THEN {[line |-> <<"!", "a", SP>>, arguments |-> <<>>]}
    ELSE LET shorter == LinesOfWords(n - 1)
         IN  shorter \cup
             {[line |-> l.line \o w.text,
               arguments |-> l.arguments \o w.arguments] :
                 l \in shorter, w \in Words}

TokenLines == LinesOfWords(MaxTokens)
TokenInputs == {l.line : l \in TokenLines}

\* The lines the documentation and the tests of the crate parse.
ExampleA ==
    <<"!", "f", "o", "o", SP, "a", "r", "g", "1", SP,
      DQ, "l", "o", "n", "g", SP, "a", "r", "g", SP, "2", DQ, SP,
      "-", "o", "p", "t", SP, "-", "o", "p", "t", SP,
      "-", "k", "e", "y", "1", COL, "v", "a", "l", "1", SP,
      "-", "k", "e", "y", "2", COL,
      DQ, "l", "o", "n", "g", SP, "v", "a", "l", "2", DQ>>
ExampleB == <<"!", "f", "o", "o", SP, "-", "o", "p", "t">>
ExampleC ==
    <<"j", "u", "s", "t", SP, "a", SP, "n", "o", "r", "m", "a", "l", SP,
      "s", "e", "n", "t", "e", "n", "c", "e">>
ExampleSpaces == <<"!", "x", SP, DQ, "a", SP, "b", SP, "c", DQ>>
ExampleEscape == <<"!", "x", SP, DQ, "a", BS, DQ, "b", BS, BS, "c", DQ>>
ExampleDupFlag == <<"!", "x", SP, "-", "f", SP, "-", "f">>
ExampleDupKey == <<"!", "x", SP, "-", "k", COL, "1", SP, "-", "k", COL, "2">>
ExampleArg == <<"!", "f", "o", "o", SP, "a", "r", "g">>

Examples == {ExampleA, ExampleB, ExampleC, ExampleSpaces, ExampleEscape,
             ExampleDupFlag, ExampleDupKey, ExampleArg}

\* Parser::new accepts any two characters.
Parsers == {[prefix |-> p, option_prefix |-> o] :
                p \in {"!", SP}, o \in {"-", SP, DQ}}

\* The Parser of the documentation: Parser::new('!', '-').
DocParser == [prefix |-> "!", option_prefix |-> "-"]

\* The Parsers with prefix '!', for the lines that open with a head.
BangParsers == {p \in Parsers : p.prefix = "!"}

\* ------------------------------------------------------------------ state
VARIABLES
    self,        \* the Parser: prefix, option_prefix
    raw,         \* the line handed to parse
    cursor,      \* index of the character the loop looks at (0-based)
    state,       \* ParseState
    name, arguments, options, parameters,
    buffer, key_buffer,
    result,      \* what parse returned, Running while it has not
    calls        \* the calls several callers make on the one Parser

vars == <<self, raw, cursor, state, name, arguments, options, parameters,
          buffer, key_buffer, result, calls>>

ParseState == {"Prefix", "Name", "Default", "Argument", "LongArgument",
               "EscapeLongArg", "Option", "ParamConnector", "ParamVal",
               "ParamLongVal", "EscapeLongParamVal"}

\* ParseError
PrefixError(i, c) == [kind |-> "PrefixError", pos |-> i, ch |-> c]
NameError(i, c)   == [kind |-> "NameError", pos |-> i, ch |-> c]
EscapeError(i, c) == [kind |-> "EscapeError", pos |-> i, ch |-> c]

\* Result<Command, ParseError>
Running == [tag |-> "Running"]
Ok(cmd) == [tag |-> "Ok", val |-> cmd]
Err(e)  == [tag |-> "Err", val |-> e]

\* An insert that forgets the elements the set held.
HashSetInsertReplaces(s, x) == {x}

\* HashSet::insert and HashMap::insert
HashSetInsert(s, x) == s \cup {x}
HashMapInsert(m, k, v) == {e \in m : e[1] # k} \cup {<<k, v>>}

\* The locals of parse as one record, for the arms of the match.
Locals == [state |-> state, name |-> name, arguments |-> arguments,
           options |-> options, parameters |-> parameters,
           buffer |-> buffer, key_buffer |-> key_buffer, ret |-> result]

\* ------------------------------------------------- the arms of the match
\* Each arm takes the Parser p, the locals l, the cursor i and the
\* character c, and gives the locals after the arm.
\* PrefixArm counting the cursor from one.
PrefixArmOneBased(p, l, i, c) ==
    IF c = p.prefix
    THEN [l EXCEPT !.state = "Name"]
    ELSE [l EXCEPT !.ret = Err(PrefixError(i + 1, c))]

PrefixArm(p, l, i, c) ==
    IF c = p.prefix
    THEN [l EXCEPT !.state = "Name"]
    ELSE [l EXCEPT !.ret = Err(PrefixError(i, c))]

\* NameArm without the test of the cursor: a space always ends the name.
NameArmNoCheck(p, l, i, c) ==
    IF c = SP
    THEN [l EXCEPT !.state = "Default"]
    ELSE [l EXCEPT !.name = Append(l.name, c)]

\* NameArm that leaves the double quote out of the name.
NameArmDropsQuote(p, l, i, c) ==
    IF c = SP
    THEN IF i = 1
         THEN [l EXCEPT !.ret = Err(NameError(i, c))]
         ELSE [l EXCEPT !.state = "Default"]
    ELSE IF c = DQ THEN l ELSE [l EXCEPT !.name = Append(l.name, c)]

NameArm(p, l, i, c) ==
    IF c = SP
    THEN IF i = 1
         THEN [l EXCEPT !.ret = Err(NameError(i, c))]
         ELSE [l EXCEPT !.state = "Default"]
    ELSE [l EXCEPT !.name = Append(l.name, c)]

\* ArgumentArm for which a colon ends the argument as a space does.
ArgumentArmColonEnds(p, l, i, c) ==
    IF c = SP \/ c = COL
    THEN [l EXCEPT !.arguments = Append(l.arguments, l.buffer),
                   !.buffer = <<>>,
                   !.state = "Default"]
    ELSE [l EXCEPT !.buffer = Append(l.buffer, c)]

\* ArgumentArm that puts the new argument in front of the earlier ones.
ArgumentArmPrepends(p, l, i, c) ==
    IF c = SP
    THEN [l EXCEPT !.arguments = <<l.buffer>> \o l.arguments,
                   !.buffer = <<>>,
                   !.state = "Default"]
    ELSE [l EXCEPT !.buffer = Append(l.buffer, c)]

ArgumentArm(p, l, i, c) ==
    IF c = SP
    THEN [l EXCEPT !.arguments = Append(l.arguments, l.buffer),
                   !.buffer = <<>>,
                   !.state = "Default"]
    ELSE [l EXCEPT !.buffer = Append(l.buffer, c)]

LongArgumentArm(p, l, i, c) ==
    CASE c = DQ -> [l EXCEPT !.arguments = Append(l.arguments, l.buffer),
                             !.buffer = <<>>,
                             !.state = "Default"]
      [] c = BS -> [l EXCEPT !.state = "EscapeLongArg"]
      [] OTHER  -> [l EXCEPT !.buffer = Append(l.buffer, c)]

\* EscapeLongArgArm that reports where the backslash stood.
EscapeLongArgArmBackslashPos(p, l, i, c) ==
    IF c = DQ \/ c = BS
    THEN [l EXCEPT !.state = "LongArgument",
                   !.buffer = Append(l.buffer, c)]
    ELSE [l EXCEPT !.ret = Err(EscapeError(i - 1, c))]

\* EscapeLongArgArm that keeps the backslash of the pair in the buffer.
EscapeLongArgArmKeepsBackslash(p, l, i, c) ==
    IF c = DQ \/ c = BS
    THEN [l EXCEPT !.state = "LongArgument",
                   !.buffer = l.buffer \o <<BS, c>>]
    ELSE [l EXCEPT !.ret = Err(EscapeError(i, c))]

EscapeLongArgArm(p, l, i, c) ==
    IF c = DQ \/ c = BS
    THEN [l EXCEPT !.state = "LongArgument",
                   !.buffer = Append(l.buffer, c)]
    ELSE [l EXCEPT !.ret = Err(EscapeError(i, c))]

\* OptionArm for which a flag given again is taken out of the set.
OptionArmToggles(p, l, i, c) ==
    CASE c = SP  -> [l EXCEPT !.options = IF l.buffer \in l.options
                                          THEN l.options \ {l.buffer}
                                          ELSE HashSetInsert(l.options,
                                                             l.buffer),
                              !.buffer = <<>>,
                              !.state = "Default"]
      [] c = COL -> [l EXCEPT !.key_buffer = l.buffer,
                              !.buffer = <<>>,
                              !.state = "ParamConnector"]
      [] OTHER   -> [l EXCEPT !.buffer = Append(l.buffer, c)]

OptionArm(p, l, i, c) ==
    CASE c = SP  -> [l EXCEPT !.options = HashSetInsert(l.options, l.buffer),
                              !.buffer = <<>>,
                              !.state = "Default"]
      [] c = COL -> [l EXCEPT !.key_buffer = l.buffer,
                              !.buffer = <<>>,
                              !.state = "ParamConnector"]
      [] OTHER   -> [l EXCEPT !.buffer = Append(l.buffer, c)]

ParamConnectorArm(p, l, i, c) ==
    CASE c = DQ -> [l EXCEPT !.state = "ParamLongVal"]
      [] c = SP -> [l EXCEPT !.parameters =
                                 HashMapInsert(l.parameters, l.key_buffer,
                                               l.buffer),
                             !.key_buffer = <<>>,
                             !.buffer = <<>>,
                             !.state = "Default"]
      [] OTHER  -> [l EXCEPT !.state = "ParamVal",
                             !.buffer = Append(l.buffer, c)]

\* ParamValArm that inserts the pair and keeps the key in key_buffer.
ParamValArmKeepsKey(p, l, i, c) ==
    IF c = SP
    THEN [l EXCEPT !.parameters =
                       HashMapInsert(l.parameters, l.key_buffer, l.buffer),
                   !.buffer = <<>>,
                   !.state = "Default"]
    ELSE [l EXCEPT !.buffer = Append(l.buffer, c)]

ParamValArm(p, l, i, c) ==
    IF c = SP
    THEN [l EXCEPT !.parameters =
                       HashMapInsert(l.parameters, l.key_buffer, l.buffer),
                   !.key_buffer = <<>>,
                   !.buffer = <<>>,
                   !.state = "Default"]
    ELSE [l EXCEPT !.buffer = Append(l.buffer, c)]

ParamLongValArm(p, l, i, c) ==
    CASE c = DQ -> [l EXCEPT !.parameters =
                                 HashMapInsert(l.parameters, l.key_buffer,
                                               l.buffer),
                             !.key_buffer = <<>>,
                             !.buffer = <<>>,
                             !.state = "Default"]
      [] c = BS -> [l EXCEPT !.state = "EscapeLongParamVal"]
      [] OTHER  -> [l EXCEPT !.buffer = Append(l.buffer, c)]

\* EscapeLongParamValArm that takes every character after the backslash.
EscapeLongParamValArmLenient(p, l, i, c) ==
    [l EXCEPT !.state = "ParamLongVal",
              !.buffer = Append(l.buffer, c)]

EscapeLongParamValArm(p, l, i, c) ==
    IF c = DQ \/ c = BS
    THEN [l EXCEPT !.state = "ParamLongVal",
                   !.buffer = Append(l.buffer, c)]
    ELSE [l EXCEPT !.ret = Err(EscapeError(i, c))]

\* DefaultArm that tries the option prefix before the space and the quote.
DefaultArmOptionFirst(p, l, i, c) ==
    IF c = p.option_prefix THEN [l EXCEPT !.state = "Option"]
    ELSE IF c = SP THEN l
    ELSE IF c = DQ THEN [l EXCEPT !.state = "LongArgument"]
    ELSE [l EXCEPT !.state = "Argument",
                   !.buffer = Append(l.buffer, c)]

\* DefaultArm that never takes the option-prefix branch.
DefaultArmNoOption(p, l, i, c) ==
    CASE c = SP -> l
      [] c = DQ -> [l EXCEPT !.state = "LongArgument"]
      [] OTHER -> [l EXCEPT !.state = "Argument",
                            !.buffer = Append(l.buffer, c)]

\* The patterns of the match are tried in the order they are written.
DefaultArm(p, l, i, c) ==
    IF c = SP THEN l
    ELSE IF c = DQ THEN [l EXCEPT !.state = "LongArgument"]
    ELSE IF c = p.option_prefix THEN [l EXCEPT !.state = "Option"]
    ELSE [l EXCEPT !.state = "Argument",
                   !.buffer = Append(l.buffer, c)]

\* A Command that takes the two characters of the Parser the wrong way
\* round.
CommandSwapsPrefixes(p, l) ==
    [prefix |-> p.option_prefix, option_prefix |-> p.prefix,
     name |-> l.name, arguments |-> l.arguments,
     options |-> l.options, parameters |-> l.parameters]

\* A Command that also takes the token the loop was still reading.
CommandWithPending(p, l) ==
    [prefix |-> p.prefix, option_prefix |-> p.option_prefix,
     name |-> l.name,
     arguments |-> IF l.state = "Argument"
                   THEN Append(l.arguments, l.buffer) ELSE l.arguments,
     options |-> IF l.state = "Option"
                 THEN l.options \cup {l.buffer} ELSE l.options,
     parameters |-> IF l.state \in {"ParamConnector", "ParamVal"}
                    THEN HashMapInsert(l.parameters, l.key_buffer, l.buffer)
                    ELSE l.parameters]

\* The Command built after the loop.
Command(p, l) ==
    [prefix |-> p.prefix, option_prefix |-> p.option_prefix,
     name |-> l.name, arguments |-> l.arguments,
     options |-> l.options, parameters |-> l.parameters]

\* ------------------------------------------------- parse as a function
\* match state: the arm of the state the locals are in.
Step(p, l, i, c) ==
    CASE l.state = "Prefix" -> PrefixArm(p, l, i, c)
      [] l.state = "Name" -> NameArm(p, l, i, c)
      [] l.state = "Argument" -> ArgumentArm(p, l, i, c)
      [] l.state = "LongArgument" -> LongArgumentArm(p, l, i, c)
      [] l.state = "EscapeLongArg" -> EscapeLongArgArm(p, l, i, c)
      [] l.state = "Option" -> OptionArm(p, l, i, c)
      [] l.state = "ParamConnector" -> ParamConnectorArm(p, l, i, c)
      [] l.state = "ParamVal" -> ParamValArm(p, l, i, c)
      [] l.state = "ParamLongVal" -> ParamLongValArm(p, l, i, c)
      [] l.state = "EscapeLongParamVal" -> EscapeLongParamValArm(p, l, i, c)
      [] l.state = "Default" -> DefaultArm(p, l, i, c)

\* The locals as parse declares them.
InitialLocals ==
    [state |-> "Prefix", name |-> <<>>, arguments |-> <<>>, options |-> {},
     parameters |-> {}, buffer |-> <<>>, key_buffer |-> <<>>,
     ret |-> Running]

\* A loop that reads on after an error and returns the last one it met.
RECURSIVE LoopFromLastError(_, _, _, _)
LoopFromLastError(p, l, i, s) ==
    IF i = Len(s)
    THEN IF l.ret # Running THEN l.ret ELSE Ok(Command(p, l))
    ELSE LET n == Step(p, [l EXCEPT !.ret = Running], i, s[i + 1])
         IN  LoopFromLastError(p,
                 IF n.ret = Running THEN [n EXCEPT !.ret = l.ret] ELSE n,
                 i + 1, s)

\* The loop from cursor i on over the line s, and the return after it.
RECURSIVE LoopFrom(_, _, _, _)
LoopFrom(p, l, i, s) ==
    IF l.ret # Running THEN l.ret
    ELSE IF i = Len(s) THEN Ok(Command(p, l))
    ELSE LoopFrom(p, Step(p, l, i, s[i + 1]), i + 1, s)

\* p.parse(s)
Parse(p, s) == LoopFrom(p, InitialLocals, 0, s)

\* ---------------------------------------------------------------- actions
Init ==
    /\ \/ self \in Parsers /\ raw \in ShortInputs \cup Examples
       \/ self \in BangParsers /\ raw \in HeadInputs
       \/ self = DocParser /\ raw \in QuotedInputs
       \/ self = DocParser /\ raw \in TokenInputs
    /\ cursor = 0
    /\ state = "Prefix"
    /\ name = <<>>
    /\ arguments = <<>>
    /\ options = {}
    /\ parameters = {}
    /\ buffer = <<>>
    /\ key_buffer = <<>>
    /\ result = Running
    /\ calls = <<>>

\* The loop has a character to look at and parse has not returned.
InLoop(s) ==
    /\ result = Running
    /\ cursor < Len(raw)
    /\ state = s

\* The character the loop looks at.
CurrentChar == raw[cursor + 1]

\* A turn that leaves the cursor on the character it has just read.
TurnStaysPut(n) ==
    /\ state' = n.state
    /\ name' = n.name
    /\ arguments' = n.arguments
    /\ options' = n.options
    /\ parameters' = n.parameters
    /\ buffer' = n.buffer
    /\ key_buffer' = n.key_buffer
    /\ result' = n.ret
    /\ cursor' = cursor
    /\ UNCHANGED <<self, raw, calls>>

\* One turn of the loop leaves the locals n; an arm that returns ends the
\* call where it stands.
Turn(n) ==
    /\ state' = n.state
    /\ name' = n.name
    /\ arguments' = n.arguments
    /\ options' = n.options
    /\ parameters' = n.parameters
    /\ buffer' = n.buffer
    /\ key_buffer' = n.key_buffer
    /\ result' = n.ret
    /\ cursor' = IF n.ret = Running THEN cursor + 1 ELSE cursor
    /\ UNCHANGED <<self, raw, calls>>

Prefix == InLoop("Prefix") /\ Turn(PrefixArm(self, Locals, cursor, CurrentChar))

Name == InLoop("Name") /\ Turn(NameArm(self, Locals, cursor, CurrentChar))

Argument == InLoop("Argument") /\ Turn(ArgumentArm(self, Locals, cursor, CurrentChar))

LongArgument ==
    InLoop("LongArgument") /\ Turn(LongArgumentArm(self, Locals, cursor, CurrentChar))

EscapeLongArg ==
    InLoop("EscapeLongArg") /\ Turn(EscapeLongArgArm(self, Locals, cursor, CurrentChar))

Option == InLoop("Option") /\ Turn(OptionArm(self, Locals, cursor, CurrentChar))

ParamConnector ==
    InLoop("ParamConnector")
        /\ Turn(ParamConnectorArm(self, Locals, cursor, CurrentChar))

ParamVal == InLoop("ParamVal") /\ Turn(ParamValArm(self, Locals, cursor, CurrentChar))

ParamLongVal ==
    InLoop("ParamLongVal") /\ Turn(ParamLongValArm(self, Locals, cursor, CurrentChar))

EscapeLongParamVal ==
    InLoop("EscapeLongParamVal")
        /\ Turn(EscapeLongParamValArm(self, Locals, cursor, CurrentChar))

Default == InLoop("Default") /\ Turn(DefaultArm(self, Locals, cursor, CurrentChar))

\* The character stream is exhausted: parse returns the Command.
Return ==
    /\ result = Running
    /\ cursor = Len(raw)
    /\ result' = Ok(Command(self, Locals))
    /\ UNCHANGED <<self, raw, cursor, state, name, arguments, options,
                   parameters, buffer, key_buffer, calls>>

Next ==
    \/ Prefix
    \/ Name
    \/ Argument
    \/ LongArgument
    \/ EscapeLongArg
    \/ Option
    \/ ParamConnector
    \/ ParamVal
    \/ ParamLongVal
    \/ EscapeLongParamVal
    \/ Default
    \/ Return

Spec == Init /\ [][Next]_vars

\* The for loop is not interrupted: while parse has not returned, the next
\* turn of the loop or the return after it is taken.
FairSpec == Spec /\ WF_vars(Next)

\* -------------------------------------- several calls on one shared Parser
\* Parser::new
ParserNew(prefix, option_prefix) ==
    [prefix |-> prefix, option_prefix |-> option_prefix]

\* The Parsers the callers share.
SharedParsers == {ParserNew("!", "-"), ParserNew("!", DQ)}

\* The lines the callers hand to parse: an argument, a parameter cut off by
\* the end of the line, a wrong escape, a wrong prefix, a flag and a quoted
\* argument.
SharedLines ==
    {<<"!", "a", SP, "a", SP>>,
     <<"!", "a", SP, "-", "a", COL, "a">>,
     <<"!", "a", SP, DQ, BS, "a">>,
     <<"a">>,
     <<"!", "a", SP, "-", "a", SP, DQ, "a", DQ>>}

Callers == 1..NumCallers

\* A call that has just entered parse: its line, its cursor, its locals.
FreshCall(line) == [raw |-> line, cursor |-> 0, locals |-> InitialLocals]

\* A token buffer that is one cell shared by all the calls.
LocalsOfSharedBuffer(k) ==
    [calls[k].locals EXCEPT !.buffer = calls[1].locals.buffer]

\* The locals of caller k's call, as the arms of the match read them: each
\* call has locals of its own.
LocalsOf(k) == calls[k].locals

InitShared ==
    /\ self \in SharedParsers
    /\ calls \in [Callers -> {FreshCall(line) : line \in SharedLines}]
    /\ raw = <<>>
    /\ cursor = 0
    /\ state = "Prefix"
    /\ name = <<>>
    /\ arguments = <<>>
    /\ options = {}
    /\ parameters = {}
    /\ buffer = <<>>
    /\ key_buffer = <<>>
    /\ result = Running

SharedFrame ==
    UNCHANGED <<self, raw, cursor, state, name, arguments, options,
                parameters, buffer, key_buffer, result>>

\* Caller k's call takes one turn of its loop.
TurnOf(k) ==
    /\ calls[k].locals.ret = Running
    /\ calls[k].cursor < Len(calls[k].raw)
    /\ LET n == Step(self, LocalsOf(k), calls[k].cursor,
                     calls[k].raw[calls[k].cursor + 1])
       IN  calls' = [calls EXCEPT
                        ![k].locals = n,
                        ![k].cursor = IF n.ret = Running THEN @ + 1 ELSE @]
    /\ SharedFrame

\* Caller k's call has read its line and returns the Command.
ReturnOf(k) ==
    /\ calls[k].locals.ret = Running
    /\ calls[k].cursor = Len(calls[k].raw)
    /\ calls' = [calls EXCEPT
                    ![k].locals.ret = Ok(Command(self, LocalsOf(k)))]
    /\ SharedFrame

\* Caller k, its call returned, calls parse again with another line.
CallAgain(k) ==
    /\ calls[k].locals.ret # Running
    /\ \E line \in SharedLines : calls' = [calls EXCEPT ![k] = FreshCall(line)]
    /\ SharedFrame

NextShared == \E k \in Callers : TurnOf(k) \/ ReturnOf(k) \/ CallAgain(k)

SpecShared == InitShared /\ [][NextShared]_vars


\* ------------------------------------------------------------ vocabulary
Returned == result.tag # "Running"
Succeeded == result.tag = "Ok"
Failed == result.tag = "Err"

TypeOK ==
    /\ self \in Parsers
    /\ cursor \in 0..Len(raw)
    /\ state \in ParseState
    /\ result.tag \in {"Running", "Ok", "Err"}

\* ------------------------------------------------------------------ claims

\* C1: a non-empty line whose first character is not the prefix makes parse
\* return PrefixError(0, that character), for every Parser; PrefixError is
\* never returned with another position.
C1_PrefixErrorAtZero ==
    /\ (Returned /\ Len(raw) > 0 /\ raw[1] # self.prefix)
           => result = Err(PrefixError(0, raw[1]))
    /\ (Failed /\ result.val.kind = "PrefixError") => result.val.pos = 0

C1_Witness ==
    /\ raw = ExampleC
    /\ self.prefix = "!"
    /\ result = Err(PrefixError(0, "j"))

\* C2: a line that opens with the prefix and then a space makes parse return
\* NameError(1, ' '), whatever follows; NameError is never returned with
\* another position.
C2_NameErrorAtOne ==
    /\ (Returned /\ Len(raw) >= 2 /\ raw[1] = self.prefix /\ raw[2] = SP)
           => result = Err(NameError(1, SP))
    /\ (Failed /\ result.val.kind = "NameError") => result.val.pos = 1

C2_Witness ==
    /\ Len(raw) > 2
    /\ raw[1] = self.prefix
    /\ raw[2] = SP
    /\ result = Err(NameError(1, SP))

\* C3: whenever parse returns a Command, the name of the Command is not the
\* empty string (the empty line and the line of the prefix alone included).
C3_NameNeverEmpty ==
    Succeeded => result.val.name # <<>>

\* The run of non-space characters a sequence opens with.
RECURSIVE MaximalRun(_)
MaximalRun(s) ==
    IF s = <<>> \/ Head(s) = SP
    THEN <<>>
    ELSE <<Head(s)>> \o MaximalRun(Tail(s))

AfterPrefix == IF raw = <<>> THEN <<>> ELSE Tail(raw)

\* C4: whenever parse returns a Command, its name is the maximal run of
\* non-space characters right after the prefix character, ended by the
\* first space or by the end of the line; quote, backslash, colon and option
\* prefix are ordinary characters of the name; the name holds no space.
C4_NameIsMaximalRun ==
    Succeeded =>
        /\ result.val.name = MaximalRun(AfterPrefix)
        /\ \A k \in 1..Len(result.val.name) : result.val.name[k] # SP

C4_Witness ==
    /\ Succeeded
    /\ self.option_prefix = "-"
    /\ raw = <<"!", "-", DQ, SP>>
    /\ result.val.name = <<"-", DQ>>

StartsWith(s, h) == Len(s) >= Len(h) /\ SubSeq(s, 1, Len(h)) = h

Has(s, x) == \E k \in 1..Len(s) : s[k] = x

\* Index of the first x in s (s holds one).
First(s, x) == CHOOSE k \in 1..Len(s) : s[k] = x /\ \A j \in 1..(k - 1) : s[j] # x

\* Openings after which DocParser is in ParseState::Default with empty
\* buffers, and what it has committed by then.
Contexts ==
    {[open |-> <<"!", "a", SP>>,
      arguments |-> <<>>, options |-> {}, parameters |-> {}],
     [open |-> <<"!", "a", SP, "a", SP>>,
      arguments |-> << <<"a">> >>, options |-> {}, parameters |-> {}],
     [open |-> <<"!", "a", SP, "-", "a", SP>>,
      arguments |-> <<>>, options |-> {<<"a">>}, parameters |-> {}],
     [open |-> <<"!", "a", SP, "-", "a", COL, "a", SP>>,
      arguments |-> <<>>, options |-> {},
      parameters |-> {<< <<"a">>, <<"a">> >>}]}

\* DocParser has consumed all of the opening of ctx and more.
Past(ctx) ==
    /\ self = DocParser
    /\ cursor > Len(ctx.open)
    /\ StartsWith(raw, ctx.open)

\* The characters consumed after the opening of ctx.
Consumed(ctx) == SubSeq(raw, Len(ctx.open) + 1, cursor)

\* s without its first and without its last character.
Inner(s) == SubSeq(s, 2, Len(s) - 1)

Last(s) == s[Len(s)]

Front(s) == SubSeq(s, 1, Len(s) - 1)

\* The map m with key k set to v.
WithEntry(m, k, v) == {e \in m : e[1] # k} \cup {<<k, v>>}

\* tok is a whole token without quotes: no space in it, no quote opening it
\* and no quote opening the value of a parameter.
Unquoted(tok) ==
    /\ Len(tok) >= 1
    /\ ~Has(tok, SP)
    /\ tok[1] # DQ
    /\ (tok[1] = "-" /\ Has(Tail(tok), COL))
           => LET body == Tail(tok)
                  k == First(body, COL)
              IN  k = Len(body) \/ body[k + 1] # DQ

\* What the unquoted token tok adds to what ctx had committed.
UnquotedCommitted(ctx, tok) ==
    IF tok[1] # "-"
    THEN /\ arguments = Append(ctx.arguments, tok)
         /\ options = ctx.options
         /\ parameters = ctx.parameters
    ELSE LET body == Tail(tok)
         IN  IF ~Has(body, COL)
             THEN /\ arguments = ctx.arguments
                  /\ options = ctx.options \cup {body}
                  /\ parameters = ctx.parameters
             ELSE LET k == First(body, COL)
                  IN  /\ arguments = ctx.arguments
                      /\ options = ctx.options
                      /\ parameters =
                             WithEntry(ctx.parameters,
                                       SubSeq(body, 1, k - 1),
                                       SubSeq(body, k + 1, Len(body)))

ExpectedA ==
    [prefix |-> "!", option_prefix |-> "-",
     name |-> <<"f", "o", "o">>,
     arguments |-> << <<"a", "r", "g", "1">>,
                      <<"l", "o", "n", "g", SP, "a", "r", "g", SP, "2">> >>,
     options |-> {<<"o", "p", "t">>},
     parameters |-> {<< <<"k", "e", "y", "1">>, <<"v", "a", "l", "1">> >>,
                     << <<"k", "e", "y", "2">>,
                        <<"l", "o", "n", "g", SP, "v", "a", "l", "2">> >>}]

\* C5: Parser::new('!', '-') parses the line of the documentation into the
\* Command of the documentation; and, after the name, a token terminated by
\* a space becomes an argument when it opens with neither quote nor option
\* prefix, a flag when it opens with the option prefix and holds no colon,
\* a parameter split at its first colon otherwise, and a token enclosed in
\* quotes becomes an argument.
C5_ExampleAndTokenKinds ==
    /\ (raw = ExampleA /\ self = DocParser /\ Returned)
           => result = Ok(ExpectedA)
    /\ \A ctx \in Contexts :
           LET t == Consumed(ctx)
           IN  /\ (Past(ctx) /\ Last(t) = SP /\ Unquoted(Front(t)))
                      => UnquotedCommitted(ctx, Front(t))
               /\ (/\ Past(ctx)
                   /\ Len(t) >= 2
                   /\ t[1] = DQ
                   /\ Last(t) = DQ
                   /\ ~Has(Inner(t), DQ)
                   /\ ~Has(Inner(t), BS))
                      => /\ arguments = Append(ctx.arguments, Inner(t))
                         /\ options = ctx.options
                         /\ parameters = ctx.parameters

C5_Witness ==
    /\ raw = ExampleA
    /\ self = DocParser
    /\ result = Ok(ExpectedA)

\* s is the inside of a closed quoted token: ordinary characters and the
\* pairs backslash-quote and backslash-backslash, no other quote or
\* backslash.
RECURSIVE QuotedBody(_)
QuotedBody(s) ==
    IF s = <<>> THEN TRUE
    ELSE IF s[1] = BS
         THEN /\ Len(s) >= 2
              /\ s[2] \in {DQ, BS}
              /\ QuotedBody(SubSeq(s, 3, Len(s)))
         ELSE s[1] # DQ /\ QuotedBody(Tail(s))

\* The inside s of a quoted token with every pair replaced by its second
\* character.
RECURSIVE Unescape(_)
Unescape(s) ==
    IF s = <<>> THEN <<>>
    ELSE IF s[1] = BS
         THEN <<s[2]>> \o Unescape(SubSeq(s, 3, Len(s)))
         ELSE <<s[1]>> \o Unescape(Tail(s))

\* t opens a quoted argument: a quote, then the inside of a quoted token.
LongArgOpen(t) == Len(t) >= 1 /\ t[1] = DQ

\* t opens a parameter with a quoted value: option prefix, a key without
\* space, the first colon, a quote.
LongValOpen(t) ==
    /\ Len(t) >= 3
    /\ t[1] = "-"
    /\ Has(t, COL)
    /\ ~Has(SubSeq(t, 1, First(t, COL)), SP)
    /\ Len(t) >= First(t, COL) + 1
    /\ t[First(t, COL) + 1] = DQ

KeyOf(t) == SubSeq(t, 2, First(t, COL) - 1)

\* What follows the opening quote of the value in t.
AfterValueQuote(t) == SubSeq(t, First(t, COL) + 2, Len(t))

\* C6: a quoted argument and a quoted parameter value closed by an unescaped
\* quote are committed as the characters between the quotes, each pair
\* backslash-quote replaced by a quote and each pair backslash-backslash by
\* a backslash, every other character (spaces too) kept in order; a space
\* inside the quotes does not end the token.
C6_QuotedTokenUnescaped ==
    /\ (raw = ExampleSpaces /\ self = DocParser /\ Returned)
           => /\ Succeeded
              /\ result.val.arguments = << <<"a", SP, "b", SP, "c">> >>
    /\ (raw = ExampleEscape /\ self = DocParser /\ Returned)
           => /\ Succeeded
              /\ result.val.arguments = << <<"a", DQ, "b", BS, "c">> >>
    /\ \A ctx \in Contexts :
           LET t == Consumed(ctx)
           IN  /\ (/\ Past(ctx)
                   /\ LongArgOpen(t)
                   /\ Len(t) >= 2
                   /\ Last(t) = DQ
                   /\ QuotedBody(Inner(t)))
                      => /\ arguments =
                                Append(ctx.arguments, Unescape(Inner(t)))
                         /\ options = ctx.options
                         /\ parameters = ctx.parameters
                         /\ state = "Default"
               /\ (/\ Past(ctx)
                   /\ LongValOpen(t)
                   /\ Len(t) >= First(t, COL) + 2
                   /\ Last(t) = DQ
                   /\ QuotedBody(Front(AfterValueQuote(t))))
                      => /\ parameters =
                                WithEntry(ctx.parameters, KeyOf(t),
                                    Unescape(Front(AfterValueQuote(t))))
                         /\ arguments = ctx.arguments
                         /\ options = ctx.options
                         /\ state = "Default"

C6_Witness ==
    /\ self = DocParser
    /\ raw = HeadParamLong \o <<BS, DQ, SP, "a", DQ>>
    /\ Succeeded
    /\ result.val.parameters = {<< <<"a">>, <<DQ, SP, "a">> >>}

\* t ends in a backslash that opens an escape inside the quoted text q.
EscapeOpen(q) ==
    /\ Len(q) >= 1
    /\ Last(q) = BS
    /\ QuotedBody(Front(q))

\* C7: a backslash inside a quoted argument or a quoted parameter value
\* followed by a character other than quote and backslash (space, colon and
\* option prefix too) makes parse return EscapeError with the cursor of
\* that character, not of the backslash, and that character: the loop never
\* consumes the character, and parse returns nothing else there.
C7_EscapeErrorAtCharacter ==
    /\ \A ctx \in Contexts :
           LET t == Consumed(ctx)
           IN  /\ (/\ Past(ctx)
                   /\ LongArgOpen(t)
                   /\ EscapeOpen(Tail(t))
                   /\ cursor < Len(raw)
                   /\ raw[cursor + 1] \notin {DQ, BS}
                   /\ Returned)
                      => result = Err(EscapeError(cursor, raw[cursor + 1]))
               /\ ~(/\ Past(ctx)
                    /\ LongArgOpen(t)
                    /\ Len(t) >= 3
                    /\ EscapeOpen(Tail(Front(t)))
                    /\ Last(t) \notin {DQ, BS})
               /\ (/\ Past(ctx)
                   /\ LongValOpen(t)
                   /\ EscapeOpen(AfterValueQuote(t))
                   /\ cursor < Len(raw)
                   /\ raw[cursor + 1] \notin {DQ, BS}
                   /\ Returned)
                      => result = Err(EscapeError(cursor, raw[cursor + 1]))
               /\ ~(/\ Past(ctx)
                    /\ LongValOpen(Front(t))
                    /\ EscapeOpen(AfterValueQuote(Front(t)))
                    /\ Last(t) \notin {DQ, BS})
    /\ (Failed /\ result.val.kind = "EscapeError")
           => /\ result.val.pos = cursor
              /\ result.val.pos >= 1
              /\ result.val.pos < Len(raw)
              /\ raw[result.val.pos] = BS
              /\ raw[result.val.pos + 1] = result.val.ch
              /\ result.val.ch \notin {DQ, BS}

C7_Witness ==
    /\ self = DocParser
    /\ raw = HeadLongArg \o <<"a", BS, COL>>
    /\ result = Err(EscapeError(6, COL))

\* C8: when the same parameter key occurs twice, parameters holds one entry
\* for the key and its value is that of the later occurrence; the line
\* !x -k:1 -k:2 gives parameters["k"] == "2".
C8_LastValueWins ==
    /\ (raw = ExampleDupKey /\ self = DocParser /\ Returned)
           => /\ Succeeded
              /\ result.val.parameters = {<< <<"k">>, <<"2">> >>}
    /\ Succeeded =>
           \A e1, e2 \in result.val.parameters : e1[1] = e2[1] => e1 = e2

\* C9: a flag that occurs more than once is in options once, so options has
\* as many elements as there are distinct committed flags; the line
\* !x -f -f gives options == {"f"}, of size 1.
C9_DuplicateFlagsCollapse ==
    /\ (raw = ExampleDupFlag /\ self = DocParser /\ Returned)
           => /\ Succeeded
              /\ result.val.options = {<<"f">>}
              /\ Cardinality(result.val.options) = 1
    /\ \A ctx \in Contexts :
           LET t == Consumed(ctx)
               flag == Tail(Front(t))
           IN  (/\ Past(ctx)
                /\ Len(t) >= 2
                /\ Last(t) = SP
                /\ t[1] = "-"
                /\ ~Has(Front(t), SP)
                /\ ~Has(t, COL))
                  => /\ options = ctx.options \cup {flag}
                     /\ Cardinality(options) =
                            IF flag \in ctx.options
                            THEN Cardinality(ctx.options)
                            ELSE Cardinality(ctx.options) + 1

C9_Witness ==
    /\ self = DocParser
    /\ raw = HeadFlagDone \o <<"a", SP>>
    /\ Succeeded
    /\ result.val.options = {<<"a">>}

\* The Command of DocParser with the name and what ctx had committed.
CommandOf(nm, ctx) ==
    [prefix |-> "!", option_prefix |-> "-", name |-> nm,
     arguments |-> ctx.arguments, options |-> ctx.options,
     parameters |-> ctx.parameters]

NothingCommitted == [arguments |-> <<>>, options |-> {}, parameters |-> {}]

NotThePrefix == cursor = 0 /\ CurrentChar # self.prefix
SpaceAtOne == cursor = 1 /\ CurrentChar = SP
EscapeStates == {"EscapeLongArg", "EscapeLongParamVal"}
QuotedStates == {"LongArgument", "ParamLongVal"}
BadEscape == state \in EscapeStates /\ CurrentChar \notin {DQ, BS}

\* The lines the documentation names as accepted although they look
\* malformed: a quote that never closes, a lone colon, a backslash outside
\* quotes, a backslash that is the last character.
NeverClosed == HeadLongArg \o <<"a">>
LoneColon == HeadDefault \o <<COL>>
BackslashOutside == HeadDefault \o <<BS>>
BackslashLast == HeadLongArg \o <<BS>>
Accepted == {NeverClosed, LoneColon, BackslashOutside, BackslashLast}

\* The error a turn of the loop must report, if any.
ExpectedTurn ==
    IF NotThePrefix THEN Err(PrefixError(cursor, CurrentChar))
    ELSE IF SpaceAtOne THEN Err(NameError(cursor, CurrentChar))
    ELSE IF BadEscape THEN Err(EscapeError(cursor, CurrentChar))
    ELSE Running

ErrorsOnlyInThreeSituations ==
    /\ result = Running /\ cursor < Len(raw) => result' = ExpectedTurn
    /\ result = Running /\ cursor = Len(raw) => result'.tag = "Ok"
    /\ result # Running => result' = result
    \* an escape state is entered by a backslash read inside quotes
    /\ state' \in EscapeStates /\ state \notin EscapeStates
         => state \in QuotedStates /\ CurrentChar = BS

\* C11: parse returns an error in exactly three situations: the character
\* at cursor 0 is not the prefix (PrefixError), the character at cursor 1
\* is a space (NameError), or the character right after a backslash inside
\* a quoted region is neither a double quote nor a backslash (EscapeError).
\* Every other turn of the loop goes on, the end of the line returns a
\* Command, and so do a quote that never closes, a lone colon, a backslash
\* outside quotes and a backslash that ends the line.
C11_ErrorsInExactlyThreeSituations ==
    /\ [][ErrorsOnlyInThreeSituations]_vars
    /\ [](state \in EscapeStates => cursor >= 1 /\ raw[cursor] = BS)
    /\ [](Failed => /\ result.val.pos = cursor
                    /\ result.val.ch = raw[cursor + 1]
                    /\ result.val.kind = "PrefixError" => cursor = 0
                    /\ result.val.kind = "NameError" => cursor = 1
                    /\ result.val.kind = "EscapeError"
                         => state \in EscapeStates)
    /\ [](Returned /\ self.prefix = "!" /\ raw \in Accepted => Succeeded)

C11_Witness ==
    /\ self = DocParser
    /\ raw = BackslashLast
    /\ state = "EscapeLongArg"
    /\ Succeeded

\* ------------------------------------------------------------------ C12
\* What may follow the character an error was reported at.
MaxAfter == 2
AfterAlphabet == {SP, DQ, "a"}
Continuations == BoundedSeq(AfterAlphabet, MaxAfter)

\* The line up to and including the character at cursor i.
UpTo(i) == SubSeq(raw, 1, i + 1)

\* C12: parse is fail-fast. When parse(raw) returns an error at position
\* i the pass has stopped at that character (the cursor is i and no
\* Command is returned), every line that agrees with raw on the characters
\* 0..i returns the same error kind, position and character whatever
\* follows, and i is the smallest cursor with a violation: every shorter
\* part of the line returns a Command.
C12_FailFast ==
    Failed =>
        /\ cursor = result.val.pos
        /\ cursor < Len(raw)
        /\ ~Succeeded
        /\ \A t \in Continuations : Parse(self, UpTo(cursor) \o t) = result
        /\ \A k \in 0..cursor : Parse(self, SubSeq(raw, 1, k)).tag = "Ok"

C12_Witness ==
    /\ self = DocParser
    /\ raw = HeadLongArg \o <<BS, "a", DQ>>
    /\ result = Err(EscapeError(5, "a"))
    /\ cursor = 5

\* ------------------------------------------------------------------ C13
\* C13: in every successful parse the arguments sequence lists the
\* committed argument tokens, quoted and unquoted together, in the order
\* in which they stand in the line, and equal argument strings are kept as
\* separate entries: on a line made of whole words, arguments is the list
\* of the argument words from left to right, flags and parameters left
\* out.
C13_ArgumentsInInputOrder ==
    Succeeded /\ self = DocParser /\ raw \in TokenInputs =>
        [line |-> raw, arguments |-> result.val.arguments] \in TokenLines

C13_Witness ==
    /\ self = DocParser
    /\ raw = <<"!", "a", SP, "a", SP, DQ, "a", SP, "a", DQ, SP, "a", SP>>
    /\ Succeeded
    /\ result.val.arguments = << <<"a">>, <<"a", SP, "a">>, <<"a">> >>

\* ------------------------------------------------------------------ C14
\* The states in which an unquoted token is being read, and the number of
\* characters of that token read so far (option prefix and colon counted).
UnquotedStates == {"Argument", "Option", "ParamConnector", "ParamVal"}

Pending ==
    CASE state = "Argument" -> Len(buffer)
      [] state = "Option" -> 1 + Len(buffer)
      [] state = "ParamConnector" -> 1 + Len(key_buffer) + 1
      [] state = "ParamVal" -> 1 + Len(key_buffer) + 1 + Len(buffer)

\* The character that stands right before the token being read.
BeforeToken == raw[cursor - Pending]

SomethingCommitted == arguments # <<>> \/ options # {} \/ parameters # {}

\* The loop is about to commit an unquoted token that follows an earlier
\* committed token.
CommittingSecond ==
    /\ result = Running
    /\ cursor < Len(raw)
    /\ state \in UnquotedStates
    /\ CurrentChar = SP
    /\ SomethingCommitted

\* C14 as stated: whitespace outside quotes is the sole token separator,
\* so a token committed after an earlier committed token starts right
\* after a space.
C14_SpaceIsSoleSeparator == CommittingSecond => BeforeToken = SP

\* A token state is left for Default by a space read outside quotes or by
\* the quote that closes a quoted token; spaces read in Default are
\* skipped.
BackToDefault ==
    /\ state # "Default" /\ state' = "Default" =>
          \/ CurrentChar = SP /\ state \in UnquotedStates \cup {"Name"}
          \/ CurrentChar = DQ /\ state \in QuotedStates
    /\ state = "Default" /\ result' = Running /\ CurrentChar = SP =>
          /\ state' = "Default"
          /\ UNCHANGED <<arguments, options, parameters>>

\* C14, amended: a token committed after an earlier committed token
\* starts right after a space lying outside quotes or right after the
\* quote that closes an earlier quoted argument or quoted value; nothing
\* else separates tokens, and runs of spaces between tokens are skipped.
C14_SpaceOrClosingQuoteSeparates ==
    /\ [](CommittingSecond => BeforeToken \in {SP, DQ})
    /\ [](state = "Default" /\ cursor >= 1 => raw[cursor] \in {SP, DQ})
    /\ [][BackToDefault]_vars

C14_Witness ==
    /\ self = DocParser
    /\ raw = <<"!", "a", SP, DQ, DQ, "a", SP>>
    /\ Succeeded
    /\ result.val.arguments = << <<>>, <<"a">> >>

\* ------------------------------------------------------------------ C15
\* C15: parse never changes the Parser's prefix and option_prefix, on
\* success and on every error alike, and every Command it returns carries
\* exactly the Parser's prefix and option_prefix in its own prefix and
\* option_prefix fields.
C15_ParserUnchangedAndCopied ==
    /\ [][self' = self]_vars
    /\ [](self \in Parsers)
    /\ [](Succeeded => /\ result.val.prefix = self.prefix
                       /\ result.val.option_prefix = self.option_prefix)

C15_Witness ==
    /\ self = [prefix |-> SP, option_prefix |-> DQ]
    /\ raw = <<SP, "a", SP, "a">>
    /\ Succeeded
    /\ result.val.prefix = SP
    /\ result.val.option_prefix = DQ

\* ------------------------------------------------------------------ C16
\* C16: parse calls on one shared Parser are independent.  However the
\* turns of the callers' loops are interleaved, and whatever calls came
\* before, each call's result equals the result of parsing its own line
\* alone on a fresh Parser with the same two characters; so nothing of
\* another call's name, buffers, arguments, flags or parameters is in it.
C16_CallsIndependent ==
    \A k \in DOMAIN calls :
        calls[k].locals.ret # Running =>
            calls[k].locals.ret =
                Parse(ParserNew(self.prefix, self.option_prefix), calls[k].raw)

\* Caller 1 is in the middle of a parameter while caller 2's call has
\* returned its Command.
C16_Witness ==
    /\ calls[1].raw = <<"!", "a", SP, "-", "a", COL, "a">>
    /\ calls[1].locals.ret = Running
    /\ calls[1].locals.key_buffer = <<"a">>
    /\ calls[2].raw = <<"!", "a", SP, "a", SP>>
    /\ calls[2].locals.ret.tag = "Ok"
    /\ calls[2].locals.ret.val.arguments = << <<"a">> >>

\* ------------------------------------------------------------------ C17
\* What one step of a call does to the cursor: it starts before parse has
\* returned; a turn that goes on has examined the character at the cursor
\* and moves the cursor up by exactly one; a turn that returns an error
\* and the return at the end of the line leave it where it is.
CursorStep ==
    /\ result = Running
    /\ result' = Running => cursor' = cursor + 1 /\ cursor < Len(raw)
    /\ result'.tag = "Err" => cursor' = cursor /\ cursor < Len(raw)
    /\ result'.tag = "Ok" => cursor' = cursor /\ cursor = Len(raw)

\* C17: every parse call terminates.  The cursor starts at 0 and rises by
\* exactly one per consumed character, so each character is examined at
\* most once, in the one state the call is in at that cursor; the call
\* ends after at most as many turns as the line has characters, with a
\* Command at the end of the line or an error at the first violation.
C17_ParseTerminates ==
    /\ cursor = 0 /\ result = Running
    /\ [][CursorStep]_vars
    /\ [](cursor <= Len(raw) /\ state \in ParseState)
    /\ [](Succeeded => cursor = Len(raw))
    /\ [](Failed => cursor < Len(raw))
    /\ <>Returned

C17_Witness ==
    /\ self = DocParser
    /\ raw = ExampleA
    /\ cursor = Len(ExampleA)
    /\ Succeeded

\* ------------------------------------------------------------------ C18
\* The states in which a parameter's key has been read and its value is
\* awaited or being read.
ParamStates ==
    {"ParamConnector", "ParamVal", "ParamLongVal", "EscapeLongParamVal"}

\* C18: buffer discipline, in every reachable state of a parse: whenever
\* the state is Prefix, Name or Default both the token buffer and the key
\* buffer are empty, and the key buffer can be non-empty only in
\* ParamConnector, ParamVal, ParamLongVal and EscapeLongParamVal; so a
\* token always starts with empty buffers and no character of one token is
\* carried into the next committed token.
C18_BufferDiscipline ==
    /\ state \in {"Prefix", "Name", "Default"}
         => buffer = <<>> /\ key_buffer = <<>>
    /\ key_buffer # <<>> => state \in ParamStates

C18_Witness ==
    /\ self = DocParser
    /\ raw = HeadParam \o <<"a", SP, "a">>
    /\ cursor = Len(raw) - 1
    /\ state = "Default"
    /\ parameters = {<< <<"a">>, <<"a">> >>}
    /\ buffer = <<>>
    /\ key_buffer = <<>>

\* ------------------------------------------------------------------ C19
\* What one step does to the committed results.
Grows ==
    /\ \/ arguments' = arguments
       \/ arguments' = Append(arguments, buffer)
    /\ \/ options' = options
       \/ options' = options \cup {buffer}
    /\ \/ parameters' = parameters
       \/ parameters' = HashMapInsert(parameters, key_buffer, buffer)
    /\ state # "Name" => name' = name

\* The Command parse returns for the first k characters of the line grew
\* into the Command returned for the whole line.
GrewFrom(k) ==
    LET shorter == Parse(self, SubSeq(raw, 1, k))
    IN  shorter.tag = "Ok" =>
            /\ StartsWith(result.val.arguments, shorter.val.arguments)
            /\ shorter.val.options \subseteq result.val.options

\* C19: committed results only grow during a parse.  Each step leaves the
\* arguments unchanged or appends one element at their end, leaves options
\* unchanged or adds one element, leaves parameters unchanged or sets one
\* key, and the name is not changed once the state has left Name; hence
\* for lines s and s ++ t that both parse successfully arguments(s) is a
\* prefix of arguments(s ++ t) and options(s) a subset of options(s ++ t).
C19_CommittedResultsOnlyGrow ==
    /\ [][Grows]_vars
    /\ [](Succeeded => \A k \in 0..Len(raw) : GrewFrom(k))

C19_Witness ==
    /\ self = DocParser
    /\ raw = HeadFlagDone \o <<"a", SP, "a", SP>>
    /\ Succeeded
    /\ result.val.arguments = << <<"a">> >>
    /\ result.val.options = {<<"a">>}
    /\ Parse(self, HeadFlagDone).val.options = {<<"a">>}
    /\ Parse(self, HeadFlagDone).val.arguments = <<>>

\* ------------------------------------------------------------------ C20
\* C20: when the configured option_prefix is the space or the double
\* quote, the Option state is unreachable, because the space and the quote
\* cases of the Default state are tried before the option-prefix case; so
\* no flag and no parameter is ever committed and every successful parse
\* returns empty options and empty parameters, whatever the line.
C20_OptionUnreachable ==
    self.option_prefix \in {SP, DQ} =>
        /\ state \notin {"Option"} \cup ParamStates
        /\ options = {} /\ parameters = {}
        /\ Succeeded => result.val.options = {} /\ result.val.parameters = {}

C20_Witness ==
    /\ self = [prefix |-> "!", option_prefix |-> DQ]
    /\ raw = HeadLongArg \o <<"a", DQ>>
    /\ Succeeded
    /\ result.val.arguments = << <<"a">> >>
    /\ result.val.options = {}

====
